---- MODULE Spec2Model ----
(***************************************************************************)
(* Model of sql_manager.py: the ConnectionManager context manager for      *)
(* sqlite3 connections and the execute_query wrapper.                      *)
(*                                                                         *)
(* The database file is a set of facts: <<"t", 0>> (the tables exist),     *)
(* <<"p", k>> (parent row k) and <<"c", k>> (child row referencing parent  *)
(* k).  A connection works on a copy (tx) that commit writes back.         *)
(* Exceptions are strings; "none" is no exception.  sqlite3's errors are   *)
(* named after the spec's two kinds: "ConnectionError" (raised while       *)
(* opening) and "QueryError" (raised by a statement); "CommitError" is the *)
(* sqlite3 error of a commit that cannot complete.                         *)
(***************************************************************************)
EXTENDS Integers, Sequences, FiniteSets, TLC

\* Keys of the rows the statements use: 1..MaxKey.
MaxKey == 2
\* Most _execute calls the body of one scope makes.
MaxRuns == 2

Keys == 1..MaxKey

TableFact == <<"t", 0>>

\* Statement texts: CREATE TABLE p, c; INSERT INTO p VALUES (k);
\* INSERT INTO c VALUES (k) with c.pid REFERENCES p(id); SELECT * FROM p;
\* a text that is no SQL; and the transaction-control statements COMMIT and
\* ROLLBACK, which are statement texts like any other.
Queries ==
    {[op |-> "create", k |-> 0], [op |-> "select", k |-> 0], [op |-> "bad", k |-> 0],
     [op |-> "commit", k |-> 0], [op |-> "rollback", k |-> 0]}
    \cup {[op |-> "insert_p", k |-> k] : k \in Keys}
    \cup {[op |-> "insert_c", k |-> k] : k \in Keys}

ReadQueries == {[op |-> "select", k |-> 0]}

\* Database configurations: a file that can be opened, and a path in a
\* directory that does not exist (sqlite3.connect raises).
Configs == {"file", "nodir"}

\* Engine faults during __enter__: the step that raises, if any.
Faults == {"none", "connect", "cursor", "BEGIN", "PRAGMA"}

\* Outcomes of sqlite3's commit on an open connection.
CommitOutcomes == {"ok", "CommitError"}

VARIABLES
    db,         \* committed content of the database file
    cm,         \* the ConnectionManager object of the current call
    pc,         \* position of the caller
    call,       \* what the caller invoked: "scope", "manual", "execute_query"
    args,       \* the arguments of the current execute_query call
    runs,       \* _execute calls made by the body of the current scope
    written,    \* facts written by the successful _execute calls of the scope
    control,    \* transaction-control statements the scope has executed
    rows,       \* rows returned by the last successful _execute
    bodyExc,    \* exception raised inside the scope body
    exitRet,    \* what __exit__ returned: "None", "True", or "raised"
    exitRaised, \* the steps of __exit__ that raised
    callerExc   \* exception the caller of the scope / of execute_query sees

vars ==
    <<db, cm, pc, call, args, runs, written, control, rows, bodyExc, exitRet,
      exitRaised, callerExc>>

NoArgs == [database |-> "none", query |-> [op |-> "none", k |-> 0]]

\* An object before __init__ has set anything.
NoSession ==
    [database |-> "file", foreign_keys |-> FALSE,
     hasConnection |-> FALSE, hasCursor |-> FALSE,
     conn |-> "none", inTx |-> FALSE, fkOn |-> FALSE, tx |-> {},
     begins |-> 0, closes |-> 0, ops |-> <<>>]

\* ConnectionManager.__init__(self, *, database, fk=False): keyword-only.
Construct(positional, keywords) ==
    IF Len(positional) > 0 \/ "database" \notin DOMAIN keywords
    THEN [exc |-> "TypeError", s |-> NoSession]
    ELSE [exc |-> "none",
          s |-> [NoSession EXCEPT
                   !.database = keywords["database"],
                   !.foreign_keys = IF "fk" \in DOMAIN keywords
                                    THEN keywords["fk"] ELSE FALSE]]

\* PRAGMA foreign_keys = True: sqlite ignores it inside a transaction.
Pragma(s) ==
    [s EXCEPT !.fkOn = IF s.inTx THEN s.fkOn ELSE TRUE,
              !.ops = Append(s.ops, "PRAGMA")]

\* __enter__ without the explicit BEGIN: connect, cursor, optional pragma.
EnterNoBegin(s, d, fault) ==
    IF s.database = "nodir" \/ fault = "connect"
    THEN [exc |-> "ConnectionError", s |-> s]
    ELSE
    LET s1 == [s EXCEPT !.hasConnection = TRUE, !.conn = "open",
                        !.ops = Append(s.ops, "connect")]
    IN  IF fault = "cursor"
        THEN [exc |-> "ConnectionError", s |-> s1]
        ELSE
        LET s2 == [s1 EXCEPT !.hasCursor = TRUE, !.ops = Append(s1.ops, "cursor")]
        IN  IF ~s2.foreign_keys
            THEN [exc |-> "none", s |-> s2]
            ELSE IF fault = "PRAGMA"
                 THEN [exc |-> "ConnectionError", s |-> s2]
                 ELSE [exc |-> "none", s |-> Pragma(s2)]

\* ConnectionManager.__enter__: connect, cursor, BEGIN, optional pragma.
Enter(s, d, fault) ==
    IF s.database = "nodir" \/ fault = "connect"
    THEN [exc |-> "ConnectionError", s |-> s]
    ELSE
    LET s1 == [s EXCEPT !.hasConnection = TRUE, !.conn = "open",
                        !.ops = Append(s.ops, "connect")]
    IN  IF fault = "cursor"
        THEN [exc |-> "ConnectionError", s |-> s1]
        ELSE
        LET s2 == [s1 EXCEPT !.hasCursor = TRUE, !.ops = Append(s1.ops, "cursor")]
        IN  IF fault = "BEGIN"
            THEN [exc |-> "ConnectionError", s |-> s2]
            ELSE
            LET s3 == [s2 EXCEPT !.inTx = TRUE, !.tx = d,
                                 !.begins = s2.begins + 1,
                                 !.ops = Append(s2.ops, "BEGIN")]
            IN  IF ~s3.foreign_keys
                THEN [exc |-> "none", s |-> s3]
                ELSE IF fault = "PRAGMA"
                     THEN [exc |-> "ConnectionError", s |-> s3]
                     ELSE [exc |-> "none", s |-> Pragma(s3)]

\* The keys k with a parent row in t, ascending: the rows SELECT returns.
RECURSIVE SelectRows(_, _)
SelectRows(t, k) ==
    IF k > MaxKey THEN <<>>
    ELSE (IF <<"p", k>> \in t THEN <<k>> ELSE <<>>) \o SelectRows(t, k + 1)

\* Whether the engine rejects statement q on content t with enforcement fk.
Rejects(t, q, fk) ==
    CASE q.op = "bad" -> TRUE
      [] q.op = "create" -> TableFact \in t
      [] q.op = "select" -> TableFact \notin t
      [] q.op = "insert_p" -> TableFact \notin t \/ <<"p", q.k>> \in t
      [] q.op = "insert_c" -> \/ TableFact \notin t
                              \/ <<"c", q.k>> \in t
                              \/ (fk /\ <<"p", q.k>> \notin t)
      [] OTHER -> TRUE

\* The facts statement q adds.
Writes(q) ==
    CASE q.op = "create" -> {TableFact}
      [] q.op = "insert_p" -> {<<"p", q.k>>}
      [] q.op = "insert_c" -> {<<"c", q.k>>}
      [] OTHER -> {}

\* The transaction-control statements among the statement texts.
Control(q) == IF q.op \in {"commit", "rollback"} THEN {q.op} ELSE {}

\* The statements before which sqlite3 opens a transaction when none is
\* active (INSERT, UPDATE, DELETE, REPLACE).
IsDml(q) == q.op \in {"insert_p", "insert_c"}

\* cursor.execute(query) on an open connection.  A statement reads and writes
\* the transaction's copy when one is active; with none active COMMIT and
\* ROLLBACK are rejected, a DML statement first begins a transaction, and any
\* other statement takes effect on the file at once.
Statement(s, d, q) ==
    LET s1 == [s EXCEPT !.ops = Append(s.ops, "execute")]
    IN  IF Control(q) # {}
        THEN IF ~s.inTx
             THEN [exc |-> "QueryError", rows |-> <<>>, s |-> s1, db |-> d]
             ELSE [exc |-> "none", rows |-> <<>>,
                   s |-> [s1 EXCEPT !.inTx = FALSE, !.tx = {}],
                   db |-> IF q.op = "commit" THEN s.tx ELSE d]
        ELSE
        LET s2 == IF ~s.inTx /\ IsDml(q)
                  THEN [s1 EXCEPT !.inTx = TRUE, !.tx = d, !.begins = s.begins + 1]
                  ELSE s1
            view == IF s2.inTx THEN s2.tx ELSE d
        IN  IF Rejects(view, q, s.fkOn)
            THEN [exc |-> "QueryError", rows |-> <<>>, s |-> s2, db |-> d]
            ELSE [exc |-> "none",
                  rows |-> IF q.op = "select" THEN SelectRows(view, 1) ELSE <<>>,
                  s |-> IF s2.inTx THEN [s2 EXCEPT !.tx = s2.tx \cup Writes(q)] ELSE s2,
                  db |-> IF s2.inTx THEN d ELSE d \cup Writes(q)]

\* A cursor in autocommit mode: every write goes to the file at once.
ExecuteAutocommit(s, d, q) ==
    IF ~s.hasCursor
    THEN [exc |-> "AttributeError", rows |-> <<>>, s |-> s, db |-> d]
    ELSE IF s.conn # "open"
    THEN [exc |-> "ProgrammingError", rows |-> <<>>, s |-> s, db |-> d]
    ELSE LET x == Statement(s, d, q)
         IN  [x EXCEPT !.db = IF x.exc = "none" THEN x.db \cup Writes(q) ELSE x.db]

\* ConnectionManager._execute: cursor.execute(query), cursor.fetchall().
Execute(s, d, q) ==
    IF ~s.hasCursor
    THEN [exc |-> "AttributeError", rows |-> <<>>, s |-> s, db |-> d]
    ELSE IF s.conn # "open"
    THEN [exc |-> "ProgrammingError", rows |-> <<>>, s |-> s, db |-> d]
    ELSE Statement(s, d, q)

\* A commit that reports success without writing the transaction back.
CommitNoWrite(s, d, outcome) ==
    IF ~s.hasConnection
    THEN [exc |-> "AttributeError", s |-> s, db |-> d]
    ELSE IF outcome = "CommitError"
    THEN [exc |-> "CommitError", s |-> [s EXCEPT !.ops = Append(s.ops, "commit")],
          db |-> d]
    ELSE [exc |-> "none",
          s |-> [s EXCEPT !.inTx = FALSE, !.ops = Append(s.ops, "commit")],
          db |-> d]

\* A commit whose failure surfaces as AttributeError.
CommitRaisesAttributeError(s, d, outcome) ==
    IF ~s.hasConnection
    THEN [exc |-> "AttributeError", s |-> s, db |-> d]
    ELSE IF outcome = "CommitError"
    THEN [exc |-> "AttributeError",
          s |-> [s EXCEPT !.ops = Append(s.ops, "commit")], db |-> d]
    ELSE [exc |-> "none",
          s |-> [s EXCEPT !.inTx = FALSE, !.ops = Append(s.ops, "commit")],
          db |-> IF s.inTx THEN s.tx ELSE d]

\* self.connection.commit()
Commit(s, d, outcome) ==
    IF ~s.hasConnection
    THEN [exc |-> "AttributeError", s |-> s, db |-> d]
    ELSE IF s.conn # "open"
    THEN [exc |-> "ProgrammingError", s |-> s, db |-> d]
    ELSE
    LET s1 == [s EXCEPT !.ops = Append(s.ops, "commit")]
    IN  IF outcome = "CommitError"
        THEN [exc |-> "CommitError", s |-> s1, db |-> d]
        ELSE [exc |-> "none",
              s |-> [s1 EXCEPT !.inTx = FALSE],
              db |-> IF s.inTx THEN s.tx ELSE d]

\* self.cursor.execute("ROLLBACK;")
Rollback(s) ==
    IF ~s.hasCursor
    THEN [exc |-> "AttributeError", s |-> s]
    ELSE IF s.conn # "open"
    THEN [exc |-> "ProgrammingError", s |-> s]
    ELSE
    LET s1 == [s EXCEPT !.ops = Append(s.ops, "ROLLBACK")]
    IN  IF ~s.inTx
        THEN [exc |-> "QueryError", s |-> s1]
        ELSE [exc |-> "none", s |-> [s1 EXCEPT !.inTx = FALSE, !.tx = {}]]

\* self.connection.close(): an open transaction is discarded.
Close(s) ==
    IF ~s.hasConnection
    THEN [exc |-> "AttributeError", s |-> s]
    ELSE [exc |-> "none",
          s |-> [s EXCEPT !.conn = "closed", !.inTx = FALSE, !.tx = {},
                          !.closes = s.closes + 1,
                          !.ops = Append(s.ops, "close")]]

\* __exit__ with the close after the try statement instead of in a finally
\* clause: an exception of commit or rollback skips it.
ExitNoFinally(s, d, outcome, exc) ==
    LET c == Commit(s, d, outcome)
    IN  IF c.exc = "none"
        THEN LET z == Close(c.s)
             IN  [exc |-> z.exc,
                  raised |-> IF z.exc # "none" THEN {"close"} ELSE {},
                  ret |-> IF z.exc = "none" THEN "None" ELSE "raised",
                  s |-> z.s, db |-> c.db]
        ELSE IF c.exc = "AttributeError"
        THEN LET r == Rollback(c.s)
             IN  [exc |-> r.exc,
                  raised |-> {"commit"}
                             \cup (IF r.exc # "none" THEN {"rollback"} ELSE {}),
                  ret |-> IF r.exc = "none" THEN "True" ELSE "raised",
                  s |-> r.s, db |-> c.db]
        ELSE [exc |-> c.exc, raised |-> {"commit"}, ret |-> "raised",
              s |-> c.s, db |-> c.db]

\* __exit__ with "except Exception" in place of "except AttributeError":
\* every exception of commit is answered by rollback and return True.
ExitCatchAll(s, d, outcome, exc) ==
    LET c == Commit(s, d, outcome)
    IN  IF c.exc = "none"
        THEN LET z == Close(c.s)
             IN  [exc |-> z.exc,
                  raised |-> IF z.exc # "none" THEN {"close"} ELSE {},
                  ret |-> IF z.exc = "none" THEN "None" ELSE "raised",
                  s |-> z.s, db |-> c.db]
        ELSE LET r == Rollback(c.s)
                 z == Close(r.s)
             IN  [exc |-> IF z.exc # "none" THEN z.exc ELSE r.exc,
                  raised |-> {"commit"}
                             \cup (IF r.exc # "none" THEN {"rollback"} ELSE {})
                             \cup (IF z.exc # "none" THEN {"close"} ELSE {}),
                  ret |-> IF z.exc = "none" /\ r.exc = "none" THEN "True" ELSE "raised",
                  s |-> z.s, db |-> c.db]

\* __exit__ that reads its exception argument: rollback when the body
\* raised, commit when it returned; close in either case.
ExitRollbackOnFailure(s, d, outcome, exc) ==
    LET c == IF exc = "none" THEN Commit(s, d, outcome)
             ELSE [exc |-> Rollback(s).exc, s |-> Rollback(s).s, db |-> d]
        z == Close(c.s)
    IN  [exc |-> IF z.exc # "none" THEN z.exc ELSE c.exc,
         raised |-> (IF c.exc # "none"
                     THEN {IF exc = "none" THEN "commit" ELSE "rollback"} ELSE {})
                    \cup (IF z.exc # "none" THEN {"close"} ELSE {}),
         ret |-> IF z.exc = "none" /\ c.exc = "none" THEN "None" ELSE "raised",
         s |-> z.s, db |-> c.db]

\* ConnectionManager.__exit__: try commit / except AttributeError: rollback,
\* return True / finally: close.  An exception of the finally clause replaces
\* the pending one.  raised is the set of steps that raised.  exc stands for
\* the arguments exc_class, exc and traceback, which the body never reads.
Exit(s, d, outcome, exc) ==
    LET c == Commit(s, d, outcome)
    IN  IF c.exc = "none"
        THEN LET z == Close(c.s)
             IN  [exc |-> z.exc,
                  raised |-> IF z.exc # "none" THEN {"close"} ELSE {},
                  ret |-> IF z.exc = "none" THEN "None" ELSE "raised",
                  s |-> z.s, db |-> c.db]
        ELSE IF c.exc = "AttributeError"
        THEN LET r == Rollback(c.s)
                 z == Close(r.s)
             IN  [exc |-> IF z.exc # "none" THEN z.exc ELSE r.exc,
                  raised |-> {"commit"}
                             \cup (IF r.exc # "none" THEN {"rollback"} ELSE {})
                             \cup (IF z.exc # "none" THEN {"close"} ELSE {}),
                  ret |-> IF z.exc = "none" /\ r.exc = "none" THEN "True" ELSE "raised",
                  s |-> z.s, db |-> c.db]
        ELSE LET z == Close(c.s)
             IN  [exc |-> IF z.exc # "none" THEN z.exc ELSE c.exc,
                  raised |-> {"commit"}
                             \cup (IF z.exc # "none" THEN {"close"} ELSE {}),
                  ret |-> "raised",
                  s |-> z.s, db |-> c.db]

\* What leaves a with statement whose body ended with bodyexc and whose
\* __exit__ gave x: __exit__'s exception, else nothing when it returned True,
\* else the body's exception.
Propagated(bodyexc, x) ==
    IF x.exc # "none" THEN x.exc
    ELSE IF x.ret = "True" THEN "none"
    ELSE bodyexc

\* execute_query(database, query):
\*     with ConnectionManager(database) as cm: return cm._execute(query)
ExecuteQuery(database, q, d, fault, outcome) ==
    LET c == Construct(<<database>>, <<>>)
    IN  IF c.exc # "none"
        THEN [exc |-> c.exc, rows |-> <<>>, s |-> c.s, db |-> d,
              bodyExc |-> "none", ret |-> "notcalled", raised |-> {},
              pc |-> "failed"]
        ELSE
        LET e == Enter(c.s, d, fault)
        IN  IF e.exc # "none"
            THEN [exc |-> e.exc, rows |-> <<>>, s |-> e.s, db |-> d,
                  bodyExc |-> "none", ret |-> "notcalled", raised |-> {},
              pc |-> "failed"]
            ELSE
            LET x == Execute(e.s, d, q)
                z == Exit(x.s, x.db, outcome, x.exc)
                out == Propagated(x.exc, z)
            IN  [exc |-> out,
                 rows |-> IF out = "none" /\ x.exc = "none" THEN x.rows ELSE <<>>,
                 s |-> z.s, db |-> z.db,
                 bodyExc |-> x.exc, ret |-> z.ret, raised |-> z.raised,
                 pc |-> "done"]

\* The exceptions a scope body can end with ("none": it returned).
BodyExcs == {"none", "QueryError", "OtherError"}

----------------------------------------------------------------------------
Init ==
    /\ db = {}
    /\ cm = NoSession
    /\ pc = "idle"
    /\ call = "none"
    /\ args = NoArgs
    /\ runs = 0
    /\ written = {}
    /\ control = {}
    /\ rows = <<>>
    /\ bodyExc = "none"
    /\ exitRet = "notcalled"
    /\ exitRaised = {}
    /\ callerExc = "none"

Idle == pc \in {"idle", "done", "failed"}

\* The caller writes ConnectionManager(database=..., fk=...), or leaves fk out.
NewScope ==
    /\ Idle
    /\ \E database \in Configs, fk \in BOOLEAN, withFk \in BOOLEAN :
         LET kw == IF withFk THEN [database |-> database, fk |-> fk]
                   ELSE [database |-> database]
             c == Construct(<<>>, kw)
         IN  /\ withFk \/ ~fk
             /\ cm' = c.s
    /\ pc' = "constructed"
    /\ call' = "scope"
    /\ args' = NoArgs
    /\ runs' = 0
    /\ written' = {}
    /\ control' = {}
    /\ rows' = <<>>
    /\ bodyExc' = "none"
    /\ exitRet' = "notcalled"
    /\ exitRaised' = {}
    /\ callerExc' = "none"
    /\ UNCHANGED db

\* The with statement calls __enter__; if it raises, __exit__ is not called.
ScopeEnter ==
    /\ pc = "constructed"
    /\ \E fault \in Faults :
         LET e == Enter(cm, db, fault)
         IN  /\ cm' = e.s
             /\ callerExc' = e.exc
             /\ pc' = IF e.exc = "none" THEN "body" ELSE "failed"
    /\ UNCHANGED <<db, call, args, runs, written, control, rows, bodyExc, exitRet,
                   exitRaised>>

\* The body calls cm._execute(q); an exception leaves the body.
Run ==
    /\ pc = "body"
    /\ runs < MaxRuns
    /\ \E q \in Queries :
         LET x == Execute(cm, db, q)
         IN  /\ cm' = x.s
             /\ db' = x.db
             /\ bodyExc' = x.exc
             /\ pc' = IF x.exc = "none" THEN "body" ELSE "raised"
             /\ rows' = IF x.exc = "none" THEN x.rows ELSE rows
             /\ written' = IF x.exc = "none" THEN written \cup Writes(q) ELSE written
             /\ control' = IF x.exc = "none" THEN control \cup Control(q) ELSE control
    /\ runs' = runs + 1
    /\ UNCHANGED <<call, args, exitRet, exitRaised, callerExc>>

\* The body raises an exception of its own.
BodyRaise ==
    /\ pc = "body"
    /\ bodyExc' = "OtherError"
    /\ pc' = "raised"
    /\ UNCHANGED <<db, cm, call, args, runs, written, control, rows, exitRet,
                   exitRaised, callerExc>>

\* The with statement calls __exit__ when the body returns or raises.
ScopeExit ==
    /\ pc \in {"body", "raised"}
    /\ \E outcome \in CommitOutcomes :
         LET x == Exit(cm, db, outcome, bodyExc)
         IN  /\ cm' = x.s
             /\ db' = x.db
             /\ exitRet' = x.ret
             /\ exitRaised' = x.raised
             /\ callerExc' = Propagated(bodyExc, x)
    /\ pc' = "done"
    /\ UNCHANGED <<call, args, runs, written, control, rows, bodyExc>>

\* __exit__ called directly on an object whose __enter__ did not complete.
ManualExit ==
    /\ \/ pc = "constructed"
       \/ pc = "failed" /\ call = "scope" /\ exitRet = "notcalled"
    /\ \E outcome \in CommitOutcomes :
         LET x == Exit(cm, db, outcome, "none")
         IN  /\ cm' = x.s
             /\ db' = x.db
             /\ exitRet' = x.ret
             /\ exitRaised' = x.raised
             /\ callerExc' = x.exc
    /\ pc' = "done"
    /\ call' = "manual"
    /\ UNCHANGED <<args, runs, written, control, rows, bodyExc>>

\* The caller calls execute_query(database, q).
execute_query ==
    /\ Idle
    /\ \E database \in Configs, q \in Queries, fault \in Faults,
          outcome \in CommitOutcomes :
         LET r == ExecuteQuery(database, q, db, fault, outcome)
         IN  /\ cm' = r.s
             /\ db' = r.db
             /\ rows' = r.rows
             /\ bodyExc' = r.bodyExc
             /\ exitRet' = r.ret
             /\ exitRaised' = r.raised
             /\ callerExc' = r.exc
             /\ pc' = r.pc
             /\ args' = [database |-> database, query |-> q]
             /\ written' = IF r.bodyExc = "none" /\ r.pc = "done" THEN Writes(q) ELSE {}
             /\ control' = IF r.bodyExc = "none" /\ r.pc = "done" THEN Control(q) ELSE {}
             /\ runs' = IF r.pc = "done" THEN 1 ELSE 0
    /\ call' = "execute_query"

Next ==
    \/ NewScope
    \/ ScopeEnter
    \/ Run
    \/ BodyRaise
    \/ ScopeExit
    \/ ManualExit
    \/ execute_query

Spec == Init /\ [][Next]_vars

----------------------------------------------------------------------------
\* What an independent session opened now on the same file would read.
FreshView(d) == Enter(Construct(<<>>, [database |-> "file"]).s, d, "none").s.tx

\* __exit__ of an entered scope has returned or raised.
ScopeExited == pc = "done" /\ call \in {"scope", "execute_query"}

Last(seq) == seq[Len(seq)]

\* C1: for every scope that was entered, once __exit__ has returned or raised
\* the connection is closed, and close was called on it exactly once; the
\* body may have returned or raised, and commit may have raised.
C1_ClosedExactlyOnce ==
    /\ cm.closes <= 1
    /\ ScopeExited => cm.conn = "closed" /\ cm.closes = 1

\* C1 witness: a scope whose body raised and whose commit raised has exited.
C1_Witness ==
    /\ ScopeExited
    /\ bodyExc = "QueryError"
    /\ "commit" \in exitRaised
    /\ cm.conn = "closed"
    /\ cm.closes = 1

\* C2 as stated: when every _execute of a scope succeeded and the body exited
\* normally, every fact written in the scope is visible to a later session.
C2_Original ==
    (ScopeExited /\ bodyExc = "none") => written \subseteq FreshView(db)

\* C2 amended: when every _execute of a scope succeeded, none of them was a
\* ROLLBACK statement, the body exited normally and the commit of __exit__ did
\* not raise, every fact written in the scope is visible to a later
\* independent session.
C2_CommittedOnSuccess ==
    (ScopeExited /\ bodyExc = "none" /\ exitRaised = {} /\ "rollback" \notin control)
        => written \subseteq FreshView(db)

\* C2 witness: a scope that made two writes has exited after a commit that
\* succeeded, and both writes are visible.
C2_Witness ==
    /\ ScopeExited
    /\ bodyExc = "none"
    /\ exitRaised = {}
    /\ control = {}
    /\ Cardinality(written) = 2
    /\ written \subseteq FreshView(db)

\* C3: when an _execute of a scope raised a QueryError (and the scope ran no
\* COMMIT statement of its own), the transaction is rolled back: no fact
\* written in that scope is visible to a later session.
C3_RolledBackOnQueryError ==
    (ScopeExited /\ bodyExc = "QueryError" /\ control = {})
        => written \cap FreshView(db) = {}

\* C4: a ConnectionError of __enter__ and a QueryError of _execute reach the
\* caller unchanged, the QueryError with the connection already closed.
C4_ErrorsReachCaller ==
    /\ (pc = "failed" /\ call = "scope" /\ exitRet = "notcalled")
           => callerExc = "ConnectionError"
    /\ (ScopeExited /\ bodyExc = "QueryError")
           => callerExc = "QueryError" /\ cm.conn = "closed"

\* An execute_query call has ended, by returning or by raising.
QueryEnded == call = "execute_query" /\ pc \in {"done", "failed"}

\* The exceptions an engine fault during open or commit gives the caller.
EngineFaults == {"ConnectionError", "CommitError"}

Range(seq) == {seq[i] : i \in 1..Len(seq)}

\* C5: for a valid configuration and a read query on existing tables,
\* execute_query opens, runs the query once, closes, and returns the rows the
\* engine gives for the committed content (unless the engine itself faults).
C5_ExecuteQueryReturnsRows ==
    (/\ QueryEnded
     /\ args.database = "file"
     /\ args.query \in ReadQueries
     /\ TableFact \in db)
        => \/ callerExc \in EngineFaults
           \/ /\ callerExc = "none"
              /\ rows = SelectRows(db, 1)
              /\ cm.ops = <<"connect", "cursor", "BEGIN", "execute", "commit", "close">>

\* C6: an execute_query call that inserts parent row k into the existing
\* tables of a file-backed database leaves row k committed, so that every
\* later call sees it (unless the engine itself faults).
C6_ExecuteQueryWritesPersist ==
    \A k \in Keys :
        (/\ QueryEnded
         /\ args.database = "file"
         /\ args.query = [op |-> "insert_p", k |-> k]
         /\ TableFact \in db
         /\ callerExc \notin EngineFaults)
            => <<"p", k>> \in FreshView(db)

\* C7: in a session opened with fk=True no _execute has inserted a child row
\* whose parent row is missing.
C7_IntegrityFlagEnforced ==
    (pc \in {"body", "raised"} /\ cm.foreign_keys /\ control = {})
        => \A k \in Keys : <<"c", k>> \in written => <<"p", k>> \in cm.tx

\* C8: __exit__ on an object on which no connection attribute was ever set
\* issues ROLLBACK, returns True and raises nothing.
C8_ExitUninitialized ==
    (pc = "done" /\ call = "manual" /\ ~cm.hasConnection)
        => /\ exitRet = "True"
           /\ callerExc = "none"
           /\ "ROLLBACK" \in Range(cm.ops)

\* C9: when __enter__ has failed, at whichever step, no connection is left
\* open.
C9_NoHandleAfterFailedOpen ==
    (pc = "failed" /\ call = "scope" /\ exitRet = "notcalled")
        => cm.conn # "open"

\* C10 as stated: in every invocation of __exit__ the close of the connection
\* is the last operation on the session, also when commit or rollback raised,
\* and the exception of that step reaches the caller.
C10_Original ==
    exitRet # "notcalled"
        => /\ cm.conn = "closed"
           /\ Len(cm.ops) > 0
           /\ Last(cm.ops) = "close"
           /\ "commit" \in exitRaised => callerExc \in {"CommitError", "AttributeError"}

\* C10 amended: in every invocation of __exit__ on a session whose connection
\* attribute is set, the close of the connection is the last operation on the
\* session, also when commit raised, and the exception of commit reaches the
\* caller with the connection closed.
C10_CloseIsLast ==
    (exitRet # "notcalled" /\ cm.hasConnection)
        => /\ cm.conn = "closed"
           /\ Last(cm.ops) = "close"
           /\ "commit" \in exitRaised => callerExc = "CommitError"

\* C10 witness: __exit__ has run on an entered session, its commit raised,
\* the connection is closed and the caller sees the exception of commit.
C10_Witness ==
    /\ exitRet = "raised"
    /\ cm.hasConnection
    /\ exitRaised = {"commit"}
    /\ Last(cm.ops) = "close"
    /\ callerExc = "CommitError"

\* The scope body is running or has just raised: __enter__ has completed and
\* __exit__ has not started.
InScope == pc \in {"body", "raised"}

\* C11 as stated: between __enter__ and __exit__ exactly one transaction is
\* active on the connection, the one __enter__ began, whatever statements the
\* body runs.
C11_Original ==
    InScope => cm.inTx /\ cm.begins = 1

\* C11 amended: between __enter__ and __exit__, as long as the body has run no
\* COMMIT or ROLLBACK statement, exactly one transaction is active on the
\* connection, the one __enter__ began: none was ended and no second one begun.
C11_OneTransaction ==
    (InScope /\ control = {}) => cm.inTx /\ cm.begins = 1

\* C11 witness: a body has run two statements, a write among them and none a
\* COMMIT or ROLLBACK, and the transaction of __enter__ is still the active one.
C11_Witness ==
    /\ pc = "body"
    /\ runs = 2
    /\ control = {}
    /\ written # {}
    /\ cm.inTx
    /\ cm.begins = 1

\* C12: what __exit__ does and returns does not depend on its exception
\* arguments: in every state in which a scope can exit, __exit__ called for a
\* body that raised gives what it gives for a body that returned; and every
\* exit of an entered scope has attempted commit, then closed, without
\* ROLLBACK and without returning True.
C12_ExitIgnoresException ==
    /\ InScope =>
         \A outcome \in CommitOutcomes, exc \in BodyExcs :
             Exit(cm, db, outcome, exc) = Exit(cm, db, outcome, "none")
    /\ ScopeExited =>
         /\ Len(cm.ops) >= 2
         /\ cm.ops[Len(cm.ops) - 1] = "commit"
         /\ Last(cm.ops) = "close"
         /\ "ROLLBACK" \notin Range(cm.ops)
         /\ exitRet # "True"

\* C12 witness: a scope whose body raised an exception of its own has exited;
\* commit was attempted and succeeded, and __exit__ returned None.
C12_Witness ==
    /\ ScopeExited
    /\ bodyExc = "OtherError"
    /\ written # {}
    /\ cm.ops[Len(cm.ops) - 1] = "commit"
    /\ exitRet = "None"
    /\ callerExc = "OtherError"

C14_Original ==
    /\ InScope => written \cap FreshView(db) = {}
    /\ ScopeExited => written \cap FreshView(db) \in {{}, written}

\* C14 amended: as long as the body has run no COMMIT or ROLLBACK statement,
\* no fact written by an _execute of the scope is visible to an independent
\* session before __exit__, and at scope exit the writes of the scope become
\* visible all together or not at all.
C14_VisibleOnlyAtExit ==
    /\ (InScope /\ control = {}) => written \cap FreshView(db) = {}
    /\ (ScopeExited /\ control = {}) => written \cap FreshView(db) \in {{}, written}

\* C14 witness: a body has made two writes, no COMMIT or ROLLBACK statement,
\* and an independent session sees neither write.
C14_Witness ==
    /\ pc = "body"
    /\ control = {}
    /\ Cardinality(written) = 2
    /\ written \cap FreshView(db) = {}

====
